---- MODULE Spec2Model ----
(***************************************************************************)
(* A model of the PDF test-data scripts of the repository:                 *)
(*   src/split_pdf.py          split_pdf, extract_text_from_pages, main    *)
(*   src/generate_large_pdf.py create_detailed_paragraphs, generate_pdf    *)
(* and of its two probe scripts:                                           *)
(*   src/scripts/test-huggingface.py  HuggingFaceAvatarTester, main        *)
(*   src/test_llama_api.py            test_llama_stack                     *)
(* File names are sequences of one-character strings, so that formatting,  *)
(* suffix tests, substring replacement and lexicographic sorting are       *)
(* computed the way Python computes them.                                  *)
(***************************************************************************)
EXTENDS Integers, Sequences, FiniteSets, TLC

VARIABLES
    source,         \* the source files on disk: path -> file
    exists,         \* the directories that exist
    output_dir,     \* files of the page directory: name -> page file
    text_dir,       \* files of the text directory: name -> text
    pc,             \* position of the running script
    frame,          \* who called the running function: "main" or "call"
    input_path,     \* split_pdf: its input_path argument
    total_pages,    \* split_pdf: len(pdf_reader.pages)
    page_num,       \* split_pdf: the loop variable
    pdf_files,      \* extract_text_from_pages: the sorted listing
    file_i,         \* extract_text_from_pages: files processed so far
    total_chars,    \* extract_text_from_pages: running total
    total_tokens,   \* extract_text_from_pages: running total
    char_count,     \* extract_text_from_pages: of the last file processed
    token_estimate, \* extract_text_from_pages: of the last file processed
    stdout,         \* the lines printed by the current run
    last_op,        \* the function that ended last
    outcome,        \* how it ended: "returned" or the exception raised
    calls,          \* number of runs started so far
    dir_before,     \* history: the page directory when split_pdf was called
    existed,        \* history: whether it existed when split_pdf was called
    text_before,    \* history: the text directory when extraction was called
    written,        \* history: the number of files split_pdf has written
    splits,         \* history: one record per split_pdf call that returned
    content,        \* generate_pdf: the block list being built
    gen_pc,         \* generate_pdf: position
    repeat_cycle,   \* generate_pdf: outer loop variable
    section_i,      \* generate_pdf: position in sections.items()
    sections,       \* generate_pdf: the section table
    cycles,         \* generate_pdf: number of repeat cycles
    repetitions,    \* generate_pdf: repetitions per base sentence
    script,         \* probes: the probe script that is run
    environ,        \* probes: os.environ, the two token variables
    hf_token,       \* HuggingFaceAvatarTester: self.hf_token
    probe_pc,       \* probes: position of the running probe script
    api_ok,         \* main: result of test_hf_api_connection
    avatar_results, \* test_avatar_endpoints: results, then main's copy
    tts_results,    \* test_tts_models: results, then main's copy
    endpoint_i,     \* probes: entries of the running loop done so far
    requests,       \* history: the HTTP requests issued, with their outcome
    steps,          \* history: the functions entered, in order
    report,         \* generate_report: the verdict printed
    printed         \* test_llama_stack: the outcome lines printed

splitVars == <<source, exists, output_dir, text_dir, pc, frame, input_path,
               total_pages, page_num, pdf_files, file_i, total_chars,
               total_tokens, char_count, token_estimate, stdout, last_op,
               outcome, calls, dir_before, existed, text_before, written,
               splits>>

genVars == <<content, gen_pc, repeat_cycle, section_i, sections, cycles,
             repetitions>>

probeVars == <<script, environ, hf_token, probe_pc, api_ok, avatar_results,
               tts_results, endpoint_i, requests, steps, report, printed>>

vars == <<splitVars, genVars, probeVars>>

----------------------------------------------------------------------------
(* Bounds of the model *)

\* small source documents have 0..MaxPages pages
MaxPages == 2
\* the largest character count of a page of a small document
MaxChars == 8
\* the large source document: more pages than three digits can number
BigPages == 1001
\* page k of the large document holds k % CharSpread characters
CharSpread == 40
\* number of script runs / function calls in one behaviour
MaxCalls == 2

(* Program constants *)

\* the minimum field width of the page number, f"{page_num + 1:03d}"
PadWidth == 3
\* the characters-per-token ratio 3.8, in tenths
RatioTenths == 38

----------------------------------------------------------------------------
(* Strings as character sequences *)

PagePrefix == <<"p", "a", "g", "e", "_">>
PdfExt == <<".", "p", "d", "f">>
TxtExt == <<".", "t", "x", "t">>

DigitChar == <<"0", "1", "2", "3", "4", "5", "6", "7", "8", "9">>

\* the characters of the file names, in ascending code point order
CharsByCode == <<".", "0", "1", "2", "3", "4", "5", "6", "7", "8", "9", "_",
                 "a", "d", "e", "f", "g", "n", "o", "p", "s", "t", "x">>

\* the rank of a character in code point order, which Python's str.__lt__ uses
Ord(c) == CHOOSE i \in 1..Len(CharsByCode) : CharsByCode[i] = c

RECURSIVE StrLess(_, _)
\* s < t for Python strings: lexicographic by code point, a proper prefix first
StrLess(s, t) ==
    IF t = <<>> THEN FALSE
    ELSE IF s = <<>> THEN TRUE
    ELSE IF Head(s) = Head(t) THEN StrLess(Tail(s), Tail(t))
    ELSE Ord(Head(s)) < Ord(Head(t))

RECURSIVE SortAt(_, _), Groups(_, _)
\* the strings of S, which agree on their first d - 1 characters, ascending:
\* the one that ends there first, then the others grouped by character d
SortAt(S, d) ==
    LET short == {t \in S : Len(t) < d}
    IN  (IF short = {} THEN <<>> ELSE <<CHOOSE t \in short : TRUE>>)
        \o Groups(S \ short, d)
Groups(S, d) ==
    IF S = {} THEN <<>>
    ELSE LET heads == {Ord(t[d]) : t \in S}
             least == CHOOSE c \in heads : \A e \in heads : c <= e
             G == {t \in S : Ord(t[d]) = least}
         IN  SortAt(G, d + 1) \o Groups(S \ G, d)

\* sorted(S) / list.sort() on a list of distinct strings
Sorted(S) == SortAt(S, 1)

\* s.endswith(suffix)
EndsWith(s, suffix) ==
    /\ Len(s) >= Len(suffix)
    /\ SubSeq(s, Len(s) - Len(suffix) + 1, Len(s)) = suffix

RECURSIVE Replace(_, _, _)
\* s.replace(old, new): every non-overlapping occurrence, left to right
Replace(s, old, new) ==
    IF Len(s) < Len(old) THEN s
    ELSE IF SubSeq(s, 1, Len(old)) = old
         THEN new \o Replace(SubSeq(s, Len(old) + 1, Len(s)), old, new)
         ELSE <<Head(s)>> \o Replace(Tail(s), old, new)

RECURSIVE Digits(_)
\* the decimal digits of n >= 0, most significant first
Digits(n) ==
    IF n < 10 THEN <<DigitChar[n + 1]>>
    ELSE Digits(n \div 10) \o <<DigitChar[(n % 10) + 1]>>

RECURSIVE ZeroPad(_, _)
\* left-pad with "0" to at least w characters; longer strings are kept whole
ZeroPad(s, w) == IF Len(s) >= w THEN s ELSE ZeroPad(<<"0">> \o s, w)

\* a formatting that keeps only the last PadWidth digits
FormatTruncated(n) ==
    LET d == ZeroPad(Digits(n), PadWidth)
    IN  SubSeq(d, Len(d) - PadWidth + 1, Len(d))

\* format(n, "03d")
Format03d(n) == ZeroPad(Digits(n), PadWidth)

\* a 0-based file name
OutputFilenameZeroBased(pn) == PagePrefix \o Format03d(pn) \o PdfExt

\* f"page_{page_num + 1:03d}.pdf"
OutputFilename(pn) == PagePrefix \o Format03d(pn + 1) \o PdfExt

\* pdf_file.replace('.pdf', '.txt')
TextFilename(pdf_file) == Replace(pdf_file, PdfExt, TxtExt)

\* an average rounded up
AverageCeil(tokens, files) == (tokens + files - 1) \div files

\* total_tokens // len(pdf_files), for len(pdf_files) > 0
Average(tokens, files) == tokens \div files

\* an estimate without the floor of one token
TokenEstimateNoFloor(cc) == (cc * 10) \div RatioTenths

\* max(1, int(char_count / 3.8)); the float quotient truncates to the exact one
TokenEstimate(cc) ==
    LET q == (cc * 10) \div RatioTenths IN IF q >= 1 THEN q ELSE 1

----------------------------------------------------------------------------
(* The file system *)

\* the script's default paths
InputPdf == "large_ai_research_document.pdf"
OtherPdf == "other.pdf"
OutputDir == "pdf_pages"
TextDir == "pdf_text"

SrcPaths == {InputPdf, OtherPdf}

Absent == [kind |-> "absent", id |-> "none", n |-> 0, pages |-> <<>>]
Corrupt == [kind |-> "corrupt", id |-> "none", n |-> 0, pages |-> <<>>]
\* a readable document of n pages; pages[k] is the character count of the
\* text of page k, and a page that is not listed holds k % CharSpread
Pdf(id, n, pages) == [kind |-> "pdf", id |-> id, n |-> n, pages |-> pages]

\* len(page.extract_text()) of page k (1-based) of a document
CharsOfPage(doc, k) ==
    IF k \in DOMAIN doc.pages THEN doc.pages[k] ELSE k % CharSpread

\* a page file that carries the number of the run that wrote it
PageFileStamped(doc, i) ==
    [ok |-> TRUE, src |-> doc.id, index |-> i + calls,
     chars |-> CharsOfPage(doc, i + 1)]

\* the single-page file PdfWriter writes for page index i (0-based) of a source
PageFile(doc, i) ==
    [ok |-> TRUE, src |-> doc.id, index |-> i, chars |-> CharsOfPage(doc, i + 1)]
\* a file PdfReader cannot read
CorruptFile == [ok |-> FALSE, src |-> "none", index |-> 0, chars |-> 0]
\* a one-page file left by something else
StaleFile(c) == [ok |-> TRUE, src |-> "stale", index |-> 0, chars |-> c]

\* page.extract_text() of a single-page file
ExtractText(file) == [src |-> file.src, index |-> file.index, len |-> file.chars]

NoFiles == <<>>

\* a write that empties the directory first
WriteFileOnly(dir, name, data) == (name :> data)

\* open(path, 'w') and write: the file is created or replaced
WriteFile(dir, name, data) ==
    (name :> data) @@ dir

\* a makedirs that does nothing
MakeDirsNoop(ex, dir) == ex

\* if not os.path.exists(dir): os.makedirs(dir)
MakeDirs(ex, dir) == ex \cup {dir}

\* [f for f in os.listdir(dir) if f.endswith('.pdf')]
PdfFilesOf(dir) == {f \in DOMAIN dir : EndsWith(f, PdfExt)}

----------------------------------------------------------------------------
(* Initial states *)

CharCounts == {0, MaxChars - 1, MaxChars}

SmallDocs == UNION {[1..n -> CharCounts] : n \in 0..MaxPages}

\* a page file numbered above every small document's page count
StalePage == OutputFilename(MaxPages + 1)
NotesTxt == <<"n", "o", "t", "e", "s", ".", "t", "x", "t">>
DataPdfPdf == <<"d", "a", "t", "a", ".", "p", "d", "f", ".", "p", "d", "f">>
DataTxtPdf == <<"d", "a", "t", "a", ".", "t", "x", "t", ".", "p", "d", "f">>

\* what the page directory may hold before the first run
PreOutputDirs ==
    { [present |-> FALSE, files |-> NoFiles],
      [present |-> TRUE, files |-> NoFiles],
      [present |-> TRUE, files |-> (StalePage :> StaleFile(MaxChars * 5))
                                    @@ (NotesTxt :> StaleFile(3))],
      [present |-> TRUE, files |-> (OutputFilename(0) :> CorruptFile)],
      [present |-> TRUE, files |-> (OutputFilename(0) :> StaleFile(2))
                                    @@ (OutputFilename(1) :> CorruptFile)],
      [present |-> TRUE, files |-> (DataPdfPdf :> StaleFile(4))
                                    @@ (DataTxtPdf :> StaleFile(MaxChars + 12))] }

\* what the text directory may hold before the first run
PreTextDirs ==
    { [present |-> FALSE, files |-> NoFiles],
      [present |-> TRUE,
       files |-> (TextFilename(StalePage) :> ExtractText(StaleFile(1)))] }

InitFiles(src, po, pt) ==
    /\ source = (InputPdf :> src) @@ (OtherPdf :> Pdf("B", 1, <<MaxChars>>))
    /\ exists = (IF po.present THEN {OutputDir} ELSE {})
                \cup (IF pt.present THEN {TextDir} ELSE {})
    /\ output_dir = po.files
    /\ text_dir = pt.files

InitLocals ==
    /\ pc = "idle"
    /\ frame = "call"
    /\ input_path = InputPdf
    /\ total_pages = 0
    /\ page_num = 0
    /\ pdf_files = <<>>
    /\ file_i = 0
    /\ total_chars = 0
    /\ total_tokens = 0
    /\ char_count = 0
    /\ token_estimate = 0
    /\ stdout = <<>>
    /\ last_op = "none"
    /\ outcome = "none"
    /\ dir_before = NoFiles
    /\ existed = FALSE
    /\ text_before = NoFiles
    /\ written = 0
    /\ splits = <<>>

GenIdle ==
    /\ content = <<>>
    /\ gen_pc = "off"
    /\ repeat_cycle = 0
    /\ section_i = 0
    /\ sections = <<>>
    /\ cycles = 0
    /\ repetitions = 0

\* no probe script is run
ProbeIdle ==
    /\ script = "none"
    /\ environ = [HF_TOKEN |-> "unset", NEXT_PUBLIC_HF_TOKEN |-> "unset"]
    /\ hf_token = "unset"
    /\ probe_pc = "off"
    /\ api_ok = FALSE
    /\ avatar_results = <<>>
    /\ tts_results = <<>>
    /\ endpoint_i = 0
    /\ requests = <<>>
    /\ steps = <<>>
    /\ report = "none"
    /\ printed = <<>>

Init ==
    /\ \/ /\ \E src \in {Absent, Corrupt}
                          \cup {Pdf("A", Len(d), d) : d \in SmallDocs},
                po \in PreOutputDirs, pt \in PreTextDirs :
                InitFiles(src, po, pt)
          /\ calls = 0
       \/ /\ InitFiles(Pdf("A", BigPages, <<>>),
                       [present |-> FALSE, files |-> NoFiles],
                       [present |-> FALSE, files |-> NoFiles])
          /\ calls = 0
    /\ InitLocals
    /\ GenIdle
    /\ ProbeIdle

----------------------------------------------------------------------------
(* Console *)

Line(tag, name, n, m) == [line |-> tag, name |-> name, n |-> n, m |-> m]

----------------------------------------------------------------------------
(* split_pdf, extract_text_from_pages and the script's main flow *)

splitLocals == <<input_path, total_pages, page_num, dir_before, existed,
                 written>>
extractLocals == <<pdf_files, file_i, total_chars, total_tokens, char_count,
                   token_estimate, text_before>>

\* the runs of one behaviour: the large document is run once
RunsAllowed == IF source[InputPdf].n > MaxPages THEN 1 ELSE MaxCalls

\* a main flow that catches split_pdf's exception and goes on
RaiseCaught(op, exc) ==
    /\ pc' = IF op = "split_pdf" /\ frame = "main"
             THEN "extract_start" ELSE "idle"
    /\ last_op' = op
    /\ outcome' = exc

\* an exception nobody catches ends the run
Raise(op, exc) ==
    /\ pc' = "idle"
    /\ last_op' = op
    /\ outcome' = exc

\* if __name__ == "__main__": the script is run
MainStart ==
    /\ pc = "idle"
    /\ calls < RunsAllowed
    /\ calls' = calls + 1
    /\ frame' = "main"
    /\ IF source[InputPdf].kind # "absent"
       THEN /\ stdout' = <<Line("Found", <<>>, 0, 0)>>
            /\ input_path' = InputPdf
            /\ pc' = "split_start"
            /\ UNCHANGED <<last_op, outcome>>
       ELSE /\ stdout' = <<Line("PDF file not found", <<>>, 0, 0)>>
            /\ pc' = "idle"
            /\ last_op' = "main"
            /\ outcome' = "returned"
            /\ UNCHANGED input_path
    /\ UNCHANGED <<source, exists, output_dir, text_dir, total_pages, page_num,
                   dir_before, existed, written, extractLocals, splits,
                   genVars, probeVars>>

\* split_pdf(path) is called on its own
CallSplit(path) ==
    /\ pc = "idle"
    /\ calls < RunsAllowed
    /\ calls' = calls + 1
    /\ frame' = "call"
    /\ stdout' = <<>>
    /\ input_path' = path
    /\ pc' = "split_start"
    /\ UNCHANGED <<source, exists, output_dir, text_dir, total_pages, page_num,
                   dir_before, existed, written, extractLocals, last_op,
                   outcome, splits, genVars, probeVars>>

\* extract_text_from_pages() is called on its own
CallExtract ==
    /\ pc = "idle"
    /\ calls < RunsAllowed
    /\ calls' = calls + 1
    /\ frame' = "call"
    /\ stdout' = <<>>
    /\ pc' = "extract_start"
    /\ UNCHANGED <<source, exists, output_dir, text_dir, splitLocals,
                   extractLocals, last_op, outcome, splits, genVars,
                   probeVars>>

\* a split_pdf that opens and reads the source before it makes the directory
SplitStartReadFirst ==
    /\ pc = "split_start"
    /\ dir_before' = output_dir
    /\ existed' = (OutputDir \in exists)
    /\ written' = 0
    /\ CASE source[input_path].kind = "absent" ->
              /\ Raise("split_pdf", "FileNotFoundError")
              /\ UNCHANGED <<total_pages, page_num, stdout, exists>>
         [] source[input_path].kind = "corrupt" ->
              /\ Raise("split_pdf", "PdfReadError")
              /\ UNCHANGED <<total_pages, page_num, stdout, exists>>
         [] source[input_path].kind = "pdf" ->
              /\ exists' = MakeDirs(exists, OutputDir)
              /\ total_pages' = source[input_path].n
              /\ page_num' = 0
              /\ stdout' = Append(stdout,
                     Line("Splitting", <<>>, source[input_path].n, 0))
              /\ pc' = "split_loop"
              /\ UNCHANGED <<last_op, outcome>>
    /\ UNCHANGED <<source, output_dir, text_dir, frame, input_path,
                   extractLocals, calls, splits, genVars, probeVars>>

\* split_pdf up to its loop: make the directory, open and read the source
SplitStart ==
    /\ pc = "split_start"
    /\ exists' = MakeDirs(exists, OutputDir)
    /\ dir_before' = output_dir
    /\ existed' = (OutputDir \in exists)
    /\ written' = 0
    /\ CASE source[input_path].kind = "absent" ->
              /\ Raise("split_pdf", "FileNotFoundError")
              /\ UNCHANGED <<total_pages, page_num, stdout>>
         [] source[input_path].kind = "corrupt" ->
              /\ Raise("split_pdf", "PdfReadError")
              /\ UNCHANGED <<total_pages, page_num, stdout>>
         [] source[input_path].kind = "pdf" ->
              /\ total_pages' = source[input_path].n
              /\ page_num' = 0
              /\ stdout' = Append(stdout,
                     Line("Splitting", <<>>, source[input_path].n, 0))
              /\ pc' = "split_loop"
              /\ UNCHANGED <<last_op, outcome>>
    /\ UNCHANGED <<source, output_dir, text_dir, frame, input_path,
                   extractLocals, calls, splits, genVars, probeVars>>

\* one iteration of split_pdf's loop: write the page to its own file (the
\* "Created" progress line is counted in written, not kept on the console)
SplitPage ==
    /\ pc = "split_loop"
    /\ page_num < total_pages
    /\ output_dir' = WriteFile(output_dir, OutputFilename(page_num),
                               PageFile(source[input_path], page_num))
    /\ written' = written + 1
    /\ page_num' = page_num + 1
    /\ UNCHANGED <<source, exists, text_dir, pc, frame, input_path,
                   total_pages, dir_before, existed, extractLocals, stdout,
                   last_op, outcome, calls, splits, genVars, probeVars>>

\* split_pdf after its loop: report, list the directory (one console line
\* stands for the listing), return
SplitFinish ==
    /\ pc = "split_loop"
    /\ page_num = total_pages
    /\ stdout' = stdout
                 \o <<Line("Split complete", <<>>, total_pages, 0),
                      Line("Directory contents", <<>>,
                           Cardinality(PdfFilesOf(output_dir)), 0)>>
    /\ splits' = Append(splits, [input |-> input_path, pages |-> total_pages,
                                 before |-> dir_before, after |-> output_dir,
                                 written |-> written,
                                 dir_exists |-> OutputDir \in exists])
    /\ last_op' = "split_pdf"
    /\ outcome' = "returned"
    /\ pc' = IF frame = "main" THEN "extract_start" ELSE "idle"
    /\ UNCHANGED <<source, exists, output_dir, text_dir, frame, splitLocals,
                   extractLocals, calls, genVars, probeVars>>

\* extract_text_from_pages up to its loop: make the directory, list and sort
ExtractStart ==
    /\ pc = "extract_start"
    /\ exists' = MakeDirs(exists, TextDir)
    /\ IF OutputDir \in exists
       THEN /\ pdf_files' = Sorted(PdfFilesOf(output_dir))
            /\ stdout' = Append(stdout,
                   Line("Extracting", <<>>,
                        Cardinality(PdfFilesOf(output_dir)), 0))
            /\ file_i' = 0
            /\ total_chars' = 0
            /\ total_tokens' = 0
            /\ text_before' = text_dir
            /\ pc' = "extract_loop"
            /\ UNCHANGED <<last_op, outcome>>
       ELSE /\ Raise("extract_text_from_pages", "FileNotFoundError")
            /\ UNCHANGED <<pdf_files, stdout, file_i, total_chars,
                           total_tokens, text_before>>
    /\ UNCHANGED <<source, output_dir, text_dir, frame, splitLocals,
                   char_count, token_estimate, calls, splits, genVars,
                   probeVars>>

\* an extraction loop that skips a file it cannot read and continues
ExtractFileSkipping ==
    /\ pc = "extract_loop"
    /\ file_i < Len(pdf_files)
    /\ LET pdf_file == pdf_files[file_i + 1]
           file == output_dir[pdf_file]
           text == ExtractText(file)
           text_filename == TextFilename(pdf_file)
       IN  IF file.ok
           THEN /\ text_dir' = WriteFile(text_dir, text_filename, text)
                /\ char_count' = text.len
                /\ token_estimate' = TokenEstimate(text.len)
                /\ total_chars' = total_chars + text.len
                /\ total_tokens' = total_tokens + TokenEstimate(text.len)
                /\ stdout' = Append(stdout,
                       Line("Text", text_filename, text.len,
                            TokenEstimate(text.len)))
           ELSE UNCHANGED <<text_dir, char_count, token_estimate,
                            total_chars, total_tokens, stdout>>
    /\ file_i' = file_i + 1
    /\ UNCHANGED <<source, exists, output_dir, frame, splitLocals, pdf_files,
                   text_before, calls, splits, genVars, probeVars, pc, last_op,
                   outcome>>

\* one iteration of the extraction loop: read, write the text, estimate, add
ExtractFile ==
    /\ pc = "extract_loop"
    /\ file_i < Len(pdf_files)
    /\ LET pdf_file == pdf_files[file_i + 1]
           file == output_dir[pdf_file]
           text == ExtractText(file)
           text_filename == TextFilename(pdf_file)
       IN  IF file.ok
           THEN /\ text_dir' = WriteFile(text_dir, text_filename, text)
                /\ char_count' = text.len
                /\ token_estimate' = TokenEstimate(text.len)
                /\ total_chars' = total_chars + text.len
                /\ total_tokens' = total_tokens + TokenEstimate(text.len)
                /\ stdout' = Append(stdout,
                       Line("Text", text_filename, text.len,
                            TokenEstimate(text.len)))
                /\ file_i' = file_i + 1
                /\ UNCHANGED <<pc, last_op, outcome>>
           ELSE /\ Raise("extract_text_from_pages", "PdfReadError")
                /\ UNCHANGED <<text_dir, char_count, token_estimate,
                               total_chars, total_tokens, stdout, file_i>>
    /\ UNCHANGED <<source, exists, output_dir, frame, splitLocals, pdf_files,
                   text_before, calls, splits, genVars, probeVars>>

\* an extraction that reports an average of zero when there is no file
ExtractFinishGuarded ==
    /\ pc = "extract_loop"
    /\ file_i = Len(pdf_files)
    /\ stdout' = stdout
           \o <<Line("Text extraction complete", <<>>, 0, 0),
                Line("Total characters", <<>>, total_chars, 0),
                Line("Total estimated tokens", <<>>, total_tokens, 0),
                Line("Average tokens per page", <<>>,
                     IF Len(pdf_files) # 0
                     THEN Average(total_tokens, Len(pdf_files)) ELSE 0, 0)>>
    /\ pc' = "idle"
    /\ last_op' = "extract_text_from_pages"
    /\ outcome' = "returned"
    /\ UNCHANGED <<source, exists, output_dir, text_dir, frame, splitLocals,
                   extractLocals, calls, splits, genVars, probeVars>>

\* extract_text_from_pages after its loop: print the totals and the average
ExtractFinish ==
    /\ pc = "extract_loop"
    /\ file_i = Len(pdf_files)
    /\ IF Len(pdf_files) # 0
       THEN /\ stdout' = stdout
                   \o <<Line("Text extraction complete", <<>>, 0, 0),
                        Line("Total characters", <<>>, total_chars, 0),
                        Line("Total estimated tokens", <<>>, total_tokens, 0),
                        Line("Average tokens per page", <<>>,
                             Average(total_tokens, Len(pdf_files)), 0)>>
            /\ pc' = "idle"
            /\ last_op' = "extract_text_from_pages"
            /\ outcome' = "returned"
       ELSE /\ stdout' = stdout
                   \o <<Line("Text extraction complete", <<>>, 0, 0),
                        Line("Total characters", <<>>, total_chars, 0),
                        Line("Total estimated tokens", <<>>, total_tokens, 0)>>
            /\ Raise("extract_text_from_pages", "ZeroDivisionError")
    /\ UNCHANGED <<source, exists, output_dir, text_dir, frame, splitLocals,
                   extractLocals, calls, splits, genVars, probeVars>>

Next ==
    \/ MainStart
    \/ \E path \in SrcPaths : CallSplit(path)
    \/ CallExtract
    \/ SplitStart
    \/ SplitPage
    \/ SplitFinish
    \/ ExtractStart
    \/ ExtractFile
    \/ ExtractFinish

Spec == Init /\ [][Next]_vars

----------------------------------------------------------------------------
(* generate_large_pdf.py: the content generator and the document builder *)

\* bounds of the generator's inputs
MaxCycles == 2
MaxReps == 2

\* base_content.lower() of the base sentences of the model
Lower(base) ==
    CASE base = "Neural networks A." -> "neural networks a."
      [] base = "The perceptron B." -> "the perceptron b."
      [] base = "Self-attention C." -> "self-attention c."

\* the text of a Paragraph: its form, the string and the number put into it
Text(form, base, lower, num) ==
    [form |-> form, base |-> base, lower |-> lower, num |-> num]

\* the flowables of the block list
Paragraph(text, style) ==
    [type |-> "Paragraph", style |-> style, text |-> text, size |-> 0]
Spacer(height) ==
    [type |-> "Spacer", style |-> "none", text |-> Text("none", "", "", 0),
     size |-> height]
PageBreak ==
    [type |-> "PageBreak", style |-> "none", text |-> Text("none", "", "", 0),
     size |-> 0]
\* Table(table_data), of Len(table_data) rows
Table(rows) ==
    [type |-> "Table", style |-> "grid", text |-> Text("none", "", "", 0),
     size |-> rows]

\* the rows of table_data: the header and eight metrics
TableRows == 9

\* the section tables generate_massive_research_sections may return: titles
\* are unique and keep their insertion order
SectionTables ==
    { <<>>,
      <<[title |-> "Deep Learning", sentences |-> <<"Neural networks A.">>]>>,
      <<[title |-> "Deep Learning",
         sentences |-> <<"Neural networks A.", "The perceptron B.">>],
        [title |-> "Transformers", sentences |-> <<"Self-attention C.">>]>>,
      <<[title |-> "Deep Learning", sentences |-> <<>>],
        [title |-> "Transformers",
         sentences |-> <<"Self-attention C.", "Neural networks A.">>]>> }

\* the paragraph built for one base sentence: the sentence, the fixed
\* clauses, and the lower-cased sentence inside two of them
Detailed(base_content) == Text("detailed", base_content, Lower(base_content), 0)

\* copies that carry their repetition index
RepeatedNumbered(x, n) == [i \in 1..n |-> [x EXCEPT !.num = i]]

\* for i in range(n): expanded.append(x)
Repeated(x, n) == [i \in 1..n |-> x]

RECURSIVE CreateOncePerSentence(_, _)
\* an expansion that ignores the repetition count
CreateOncePerSentence(content_list, reps) ==
    IF content_list = <<>> THEN <<>>
    ELSE <<Detailed(Head(content_list))>>
         \o CreateOncePerSentence(Tail(content_list), reps)

RECURSIVE create_detailed_paragraphs(_, _)
\* create_detailed_paragraphs(content_list, repetitions)
create_detailed_paragraphs(content_list, reps) ==
    IF content_list = <<>> THEN <<>>
    ELSE Repeated(Detailed(Head(content_list)), reps)
         \o create_detailed_paragraphs(Tail(content_list), reps)

\* the title page
TitlePage ==
    << Paragraph(Text("title", "Comprehensive AI Research Document", "", 0),
                 "CustomTitle"),
       Spacer(20),
       Paragraph(Text("title", "Advanced Machine Learning and Deep Learning Techniques", "", 0),
                 "Title"),
       Spacer(20),
       Paragraph(Text("title", "A detailed exploration", "", 0), "Normal"),
       PageBreak >>

\* f"{section_title} - Volume {repeat_cycle + 1}"
SectionWithCycle(section_title, cycle) ==
    Text("heading", section_title, "", cycle + 1)

\* a narrative that embeds the volume number
ExperimentalTextVolume(cycle) == Text("narrative", "", "", cycle + 1)

\* experimental_text: "... conducted across {repeat_cycle + 5} different ..."
ExperimentalText(cycle) == Text("narrative", "", "", cycle + 5)

RECURSIVE WithSpacers(_)
\* for para in detailed_paragraphs: a Paragraph and a Spacer each
WithSpacers(paras) ==
    IF paras = <<>> THEN <<>>
    ELSE <<Paragraph(Head(paras), "Normal"), Spacer(6)>>
         \o WithSpacers(Tail(paras))

\* what one iteration of the inner loop appends to content
SectionBlocks(section, cycle, reps) ==
    << Paragraph(SectionWithCycle(section.title, cycle), "CustomHeading"),
       Spacer(12) >>
    \o WithSpacers(create_detailed_paragraphs(section.sentences, reps))
    \o << Table(TableRows), Spacer(15),
          Paragraph(ExperimentalText(cycle), "Normal"), Spacer(10),
          PageBreak >>

\* generate_pdf up to its loops: the title page, the section table
GenStart ==
    /\ gen_pc = "start"
    /\ content' = TitlePage
    /\ repeat_cycle' = 0
    /\ section_i' = 0
    /\ gen_pc' = "loop"
    /\ UNCHANGED <<sections, cycles, repetitions, splitVars, probeVars>>

\* one iteration of "for section_title, section_content in sections.items()"
GenSection ==
    /\ gen_pc = "loop"
    /\ repeat_cycle < cycles
    /\ section_i < Len(sections)
    /\ content' = content
                  \o SectionBlocks(sections[section_i + 1], repeat_cycle,
                                   repetitions)
    /\ section_i' = section_i + 1
    /\ UNCHANGED <<gen_pc, repeat_cycle, sections, cycles, repetitions,
                   splitVars, probeVars>>

\* the inner loop is exhausted: the next repeat_cycle
GenNextCycle ==
    /\ gen_pc = "loop"
    /\ repeat_cycle < cycles
    /\ section_i = Len(sections)
    /\ repeat_cycle' = repeat_cycle + 1
    /\ section_i' = 0
    /\ UNCHANGED <<content, gen_pc, sections, cycles, repetitions, splitVars,
                   probeVars>>

\* doc.build(content): the document is written; the renderer decides the
\* number of pages, at least one
GenBuild ==
    /\ gen_pc = "loop"
    /\ repeat_cycle = cycles
    /\ \E n \in 1..MaxPages :
           source' = [source EXCEPT
                         ![InputPdf] = Pdf("A", n, [k \in 1..n |-> MaxChars])]
    /\ gen_pc' = "done"
    /\ UNCHANGED <<content, repeat_cycle, section_i, sections, cycles,
                   repetitions, exists, output_dir, text_dir, pc, frame,
                   input_path, total_pages, page_num, pdf_files, file_i,
                   total_chars, total_tokens, char_count, token_estimate,
                   stdout, last_op, outcome, calls, dir_before, existed,
                   text_before, written, splits, probeVars>>

InitGen ==
    /\ InitFiles(Absent, [present |-> FALSE, files |-> NoFiles],
                 [present |-> FALSE, files |-> NoFiles])
    /\ calls = 0
    /\ InitLocals
    /\ content = <<>>
    /\ gen_pc = "start"
    /\ repeat_cycle = 0
    /\ section_i = 0
    /\ sections \in SectionTables
    /\ cycles \in 0..MaxCycles
    /\ repetitions \in 0..MaxReps
    /\ ProbeIdle

NextGen ==
    \/ GenStart
    \/ GenSection
    \/ GenNextCycle
    \/ GenBuild

SpecGen == InitGen /\ [][NextGen]_vars

----------------------------------------------------------------------------
(* The probe scripts: scripts/test-huggingface.py and test_llama_api.py *)

\* what a request comes to: a response with a status and a body, or an
\* exception raised by the HTTP library
Status(code, body) == [kind |-> "status", code |-> code, body |-> body]
Timeout == [kind |-> "timeout", code |-> 0, body |-> "none"]
ConnectionError == [kind |-> "error", code |-> 0, body |-> "none"]

\* requests.get(url, timeout=15) of an avatar endpoint
AvatarReplies ==
    {Timeout, ConnectionError, Status(200, "text"), Status(404, "text")}
\* requests.post(url, headers, json, timeout=30) of a TTS model
TtsReplies == {ConnectionError, Status(200, "bytes"), Status(503, "json")}
\* requests.post of the generation flow's TTS request
FlowReplies == {ConnectionError, Status(200, "bytes")}
\* requests.get of whoami-v2: a body that is a JSON object, or is not
WhoamiReplies ==
    {ConnectionError, Status(200, "json"), Status(200, "text"),
     Status(401, "json")}
\* session.post of the chat completion: a body that is JSON, that is text
\* only, or whose read fails
LlamaReplies ==
    {ConnectionError, Status(200, "json"), Status(200, "text"),
     Status(200, "broken"), Status(500, "text"), Status(500, "broken")}

\* the values the two environment variables may have
HfTokenValues == {"unset", "", "hf_secret"}
PublicTokenValues == {"unset", "hf_public"}

\* os.getenv('HF_TOKEN') or os.getenv('NEXT_PUBLIC_HF_TOKEN')
TokenOf(env) ==
    IF env.HF_TOKEN \notin {"unset", ""} THEN env.HF_TOKEN
    ELSE env.NEXT_PUBLIC_HF_TOKEN

\* not self.hf_token
NoToken(token) == token \in {"unset", ""}

\* self.avatar_endpoints.items(), in insertion order
avatar_endpoints == <<"hallo", "sadtalker", "talking_face_tts", "tts_hallo">>
\* self.tts_models
tts_models == <<"microsoft/speecht5_tts", "facebook/mms-tts-eng",
                "espnet/kan-bayashi_ljspeech_vits">>

\* a request of the log
Request(by, method, target, reply) ==
    [by |-> by, method |-> method, target |-> target, reply |-> reply]

\* test_hf_api_connection, given the reply: True for status 200 with a body
\* that decodes to an object, False for any other status and any exception
WhoamiOk(reply) ==
    reply.kind = "status" /\ reply.code = 200 /\ reply.body = "json"

\* a TTS entry that counts a loading model as available
TtsEntryLoading(reply) == reply.kind = "status" /\ reply.code \in {200, 503}

\* results[name] of test_avatar_endpoints, given the reply
AvatarEntry(reply) == reply.kind = "status" /\ reply.code = 200

\* results[model] of test_tts_models, given the reply
TtsEntry(reply) == reply.kind = "status" /\ reply.code = 200

\* any(results.values())
AnyTrue(results) == \E k \in DOMAIN results : results[k]

\* a verdict that does not look at the API connection
ReadyWithoutApi(ok, avatars, tts) == AnyTrue(avatars) /\ AnyTrue(tts)

\* ready = api_ok and any(avatar_results.values()) and any(tts_results.values())
Ready(ok, avatars, tts) == ok /\ AnyTrue(avatars) /\ AnyTrue(tts)

\* a main that always runs the generation flow
AfterTestsAlways(ok) == "flow"

\* main after the three tests: "if api_ok: tester.test_avatar_generation_flow()"
AfterTests(ok) == IF ok THEN "flow" ELSE "report"

\* an outcome that reports SUCCESS on status 200 whatever the body
LlamaOutcomeByStatus(reply) ==
    CASE reply.kind # "status" -> "CONNECTION ERROR"
      [] reply.kind = "status" /\ reply.code = 200 -> "SUCCESS"
      [] OTHER -> "ERROR"

\* the line test_llama_stack prints: resp.json() raises unless the body is
\* JSON, resp.text() raises when the body cannot be read
LlamaOutcome(reply) ==
    CASE reply.kind # "status" -> "CONNECTION ERROR"
      [] reply.kind = "status" /\ reply.code = 200 ->
             IF reply.body = "json" THEN "SUCCESS" ELSE "CONNECTION ERROR"
      [] OTHER ->
             IF reply.body # "broken" THEN "ERROR" ELSE "CONNECTION ERROR"

hfLocals == <<hf_token, api_ok, avatar_results, tts_results, endpoint_i,
              report>>

\* main up to its first test: the banner, HuggingFaceAvatarTester()
HfMain ==
    /\ script = "huggingface"
    /\ probe_pc = "start"
    /\ hf_token' = TokenOf(environ)
    /\ steps' = <<"main">>
    /\ probe_pc' = "api"
    /\ UNCHANGED <<script, environ, api_ok, avatar_results, tts_results,
                   endpoint_i, requests, report, printed, splitVars, genVars>>

\* api_ok = tester.test_hf_api_connection()
TestHfApiConnection ==
    /\ probe_pc = "api"
    /\ steps' = Append(steps, "test_hf_api_connection")
    /\ IF NoToken(hf_token)
       THEN /\ api_ok' = FALSE
            /\ UNCHANGED requests
       ELSE \E reply \in WhoamiReplies :
                /\ requests' = Append(requests,
                       Request("test_hf_api_connection", "GET", "whoami-v2",
                               reply))
                /\ api_ok' = WhoamiOk(reply)
    /\ probe_pc' = "avatar"
    /\ UNCHANGED <<script, environ, hf_token, avatar_results, tts_results,
                   endpoint_i, report, printed, splitVars, genVars>>

\* test_avatar_endpoints up to its loop
TestAvatarEndpoints ==
    /\ probe_pc = "avatar"
    /\ steps' = Append(steps, "test_avatar_endpoints")
    /\ avatar_results' = <<>>
    /\ endpoint_i' = 0
    /\ probe_pc' = "avatar_loop"
    /\ UNCHANGED <<script, environ, hf_token, api_ok, tts_results, requests,
                   report, printed, splitVars, genVars>>

\* one iteration of "for name, url in self.avatar_endpoints.items()"
TestAvatarEndpoint ==
    /\ probe_pc = "avatar_loop"
    /\ endpoint_i < Len(avatar_endpoints)
    /\ \E reply \in AvatarReplies :
           LET name == avatar_endpoints[endpoint_i + 1] IN
           /\ requests' = Append(requests,
                  Request("test_avatar_endpoints", "GET", name, reply))
           /\ avatar_results' = (name :> AvatarEntry(reply)) @@ avatar_results
    /\ endpoint_i' = endpoint_i + 1
    /\ UNCHANGED <<script, environ, hf_token, probe_pc, api_ok, tts_results,
                   steps, report, printed, splitVars, genVars>>

\* "return results" of test_avatar_endpoints
TestAvatarReturn ==
    /\ probe_pc = "avatar_loop"
    /\ endpoint_i = Len(avatar_endpoints)
    /\ probe_pc' = "tts"
    /\ UNCHANGED <<script, environ, hfLocals, requests, steps, printed,
                   splitVars, genVars>>

\* test_tts_models up to its loop
TestTtsModels ==
    /\ probe_pc = "tts"
    /\ steps' = Append(steps, "test_tts_models")
    /\ tts_results' = <<>>
    /\ endpoint_i' = 0
    /\ probe_pc' = "tts_loop"
    /\ UNCHANGED <<script, environ, hf_token, api_ok, avatar_results,
                   requests, report, printed, splitVars, genVars>>

\* one iteration of "for model in self.tts_models"
TestTtsModel ==
    /\ probe_pc = "tts_loop"
    /\ endpoint_i < Len(tts_models)
    /\ \E reply \in TtsReplies :
           LET model == tts_models[endpoint_i + 1] IN
           /\ requests' = Append(requests,
                  Request("test_tts_models", "POST", model, reply))
           /\ tts_results' = (model :> TtsEntry(reply)) @@ tts_results
    /\ endpoint_i' = endpoint_i + 1
    /\ UNCHANGED <<script, environ, hf_token, probe_pc, api_ok,
                   avatar_results, steps, report, printed, splitVars, genVars>>

\* "return results" of test_tts_models, and main's "if api_ok:"
TestTtsReturn ==
    /\ probe_pc = "tts_loop"
    /\ endpoint_i = Len(tts_models)
    /\ probe_pc' = AfterTests(api_ok)
    /\ UNCHANGED <<script, environ, hfLocals, requests, steps, printed,
                   splitVars, genVars>>

\* tester.test_avatar_generation_flow(): one TTS request, whose failure is
\* printed and dropped; the result is not used
TestAvatarGenerationFlow ==
    /\ probe_pc = "flow"
    /\ steps' = Append(steps, "test_avatar_generation_flow")
    /\ \E reply \in FlowReplies :
           requests' = Append(requests,
               Request("test_avatar_generation_flow", "POST", tts_models[1],
                       reply))
    /\ probe_pc' = "report"
    /\ UNCHANGED <<script, environ, hfLocals, printed, splitVars, genVars>>

\* tester.generate_report(api_ok, avatar_results, tts_results), and the two
\* closing lines of main
GenerateReport ==
    /\ probe_pc = "report"
    /\ steps' = Append(steps, "generate_report")
    /\ report' = IF Ready(api_ok, avatar_results, tts_results)
                 THEN "ready" ELSE "not ready"
    /\ probe_pc' = "done"
    /\ UNCHANGED <<script, environ, hf_token, api_ok, avatar_results,
                   tts_results, endpoint_i, requests, printed, splitVars,
                   genVars>>

\* asyncio.run(test_llama_stack()) up to the response: the session, the POST
LlamaPost ==
    /\ script = "llama"
    /\ probe_pc = "start"
    /\ steps' = <<"test_llama_stack">>
    /\ \E reply \in LlamaReplies :
           requests' = Append(requests,
               Request("test_llama_stack", "POST", "chat/completions", reply))
    /\ probe_pc' = "posted"
    /\ UNCHANGED <<script, environ, hfLocals, printed, splitVars, genVars>>

\* test_llama_stack from the response on: the status branch, the body read,
\* the except clause; the coroutine returns
LlamaPrint ==
    /\ probe_pc = "posted"
    /\ printed' = Append(printed, LlamaOutcome(requests[Len(requests)].reply))
    /\ probe_pc' = "done"
    /\ UNCHANGED <<script, environ, hfLocals, requests, steps, splitVars,
                   genVars>>

InitProbe ==
    /\ InitFiles(Absent, [present |-> FALSE, files |-> NoFiles],
                 [present |-> FALSE, files |-> NoFiles])
    /\ calls = 0
    /\ InitLocals
    /\ GenIdle
    /\ script \in {"huggingface", "llama"}
    /\ environ \in [HF_TOKEN : HfTokenValues,
                    NEXT_PUBLIC_HF_TOKEN : PublicTokenValues]
    /\ hf_token = "unset"
    /\ probe_pc = "start"
    /\ api_ok = FALSE
    /\ avatar_results = <<>>
    /\ tts_results = <<>>
    /\ endpoint_i = 0
    /\ requests = <<>>
    /\ steps = <<>>
    /\ report = "none"
    /\ printed = <<>>

NextProbe ==
    \/ HfMain
    \/ TestHfApiConnection
    \/ TestAvatarEndpoints
    \/ TestAvatarEndpoint
    \/ TestAvatarReturn
    \/ TestTtsModels
    \/ TestTtsModel
    \/ TestTtsReturn
    \/ TestAvatarGenerationFlow
    \/ GenerateReport
    \/ LlamaPost
    \/ LlamaPrint

SpecProbe == InitProbe /\ [][NextProbe]_vars

----------------------------------------------------------------------------
(* Properties of the split pipeline *)

\* page_{k} with exactly three decimal digits, for 1 <= k <= 999
ThreeDigitName(k) ==
    PagePrefix
    \o <<DigitChar[(k \div 100) + 1], DigitChar[((k \div 10) % 10) + 1],
         DigitChar[(k % 10) + 1]>>
    \o PdfExt

\* the content of page k (1-based) of the source at path, as a page file
SourcePage(path, k) ==
    [ok |-> TRUE, src |-> source[path].id, index |-> k - 1,
     chars |-> CharsOfPage(source[path], k)]

\* extract_text_from_pages has returned normally, and nothing ran since
ExtractReturned ==
    pc = "idle" /\ last_op = "extract_text_from_pages" /\ outcome = "returned"

\* the indices of the lines of the console with the given tag
LinesOf(tag) == {i \in DOMAIN stdout : stdout[i].line = tag}

RECURSIVE SumN(_, _), SumM(_, _)
\* the sums of the two numbers of the "Text" lines lo..hi of the console
SumN(lo, hi) ==
    IF lo > hi THEN 0
    ELSE IF lo = hi THEN (IF stdout[lo].line = "Text" THEN stdout[lo].n ELSE 0)
    ELSE SumN(lo, (lo + hi) \div 2) + SumN(((lo + hi) \div 2) + 1, hi)
SumM(lo, hi) ==
    IF lo > hi THEN 0
    ELSE IF lo = hi THEN (IF stdout[lo].line = "Text" THEN stdout[lo].m ELSE 0)
    ELSE SumM(lo, (lo + hi) \div 2) + SumM(((lo + hi) \div 2) + 1, hi)

\* C1: every split_pdf call that returns, on a source of N pages with
\* 1 <= N <= 999 and a page directory that held no file when it was called,
\* leaves exactly the N files page_001.pdf .. page_N.pdf (1-based, three
\* digits), and the file numbered k holds source page k (index k - 1).
C1_SplitRoundTrip ==
    \A i \in DOMAIN splits :
        LET r == splits[i] IN
        (DOMAIN r.before = {} /\ 1 <= r.pages /\ r.pages <= 999) =>
            /\ DOMAIN r.after = {ThreeDigitName(k) : k \in 1..r.pages}
            /\ Cardinality(DOMAIN r.after) = r.pages
            /\ \A k \in 1..r.pages :
                   r.after[ThreeDigitName(k)] = SourcePage(r.input, k)

\* a split of a MaxPages-page source into an empty directory has returned
C1_Witness ==
    \E i \in DOMAIN splits :
        /\ DOMAIN splits[i].before = {}
        /\ splits[i].pages = MaxPages
        /\ splits[i].input = InputPdf

\* the name of a page file without its final ".pdf"
BaseName(f) == SubSeq(f, 1, Len(f) - Len(PdfExt))

\* C2: when extract_text_from_pages has completed without error, the text
\* directory holds, for every .pdf file of the page directory, the .txt file
\* of the same base name, and the number of text files extracted equals the
\* number of page files.
C2_OneTextPerPage ==
    ExtractReturned =>
        /\ \A f \in PdfFilesOf(output_dir) :
               BaseName(f) \o TxtExt \in DOMAIN text_dir
        /\ Cardinality({stdout[i].name : i \in LinesOf("Text")})
               = Cardinality(PdfFilesOf(output_dir))

\* C3: the token estimate of every processed text of c characters is
\* max(1, floor(c / 3.8)): at least 1, 1 for c <= 7, and otherwise the one
\* integer t with 3.8 t <= c < 3.8 (t + 1).
C3_TokenEstimate ==
    (pc = "extract_loop" /\ file_i > 0) =>
        /\ token_estimate >= 1
        /\ (char_count <= 7 => token_estimate = 1)
        /\ (char_count * 10 >= 38 =>
                /\ 38 * token_estimate <= char_count * 10
                /\ char_count * 10 < 38 * (token_estimate + 1))

\* an empty text has been processed and estimated at one token
C3_Witness ==
    /\ pc = "extract_loop"
    /\ file_i > 0
    /\ char_count = 0
    /\ token_estimate = 1

\* C4: when extract_text_from_pages has returned after M >= 1 files, the
\* reported total characters is the sum of the per-file character counts,
\* the reported total tokens the sum of the per-file token estimates, the
\* reported average the total tokens integer-divided by M; and no total is
\* on the console while a file is still to be processed.
C4_Totals ==
    /\ ExtractReturned =>
           LET n == Len(stdout)
               M == Cardinality(LinesOf("Text"))
           IN  /\ M = Len(pdf_files)
               /\ M >= 1
               /\ stdout[n - 2] =
                      Line("Total characters", <<>>, SumN(1, n), 0)
               /\ stdout[n - 1] =
                      Line("Total estimated tokens", <<>>, SumM(1, n), 0)
               /\ stdout[n].line = "Average tokens per page"
               /\ stdout[n].n * M <= SumM(1, n)
               /\ SumM(1, n) < (stdout[n].n + 1) * M
    /\ (pc = "extract_loop" /\ file_i < Len(pdf_files)) =>
           /\ LinesOf("Total characters") = {}
           /\ LinesOf("Total estimated tokens") = {}
           /\ LinesOf("Average tokens per page") = {}

\* an extraction of two files whose token total is odd has returned
C4_Witness ==
    /\ ExtractReturned
    /\ Len(pdf_files) = 2
    /\ total_tokens % 2 = 1
    /\ total_chars > 0

\* the name of the file of page k (1-based): three digits, or all of them
PageFileName(k) ==
    IF k <= 999 THEN ThreeDigitName(k) ELSE PagePrefix \o Digits(k) \o PdfExt

\* C7: when split_pdf returns again on the same source and directory, every
\* per-page file of the earlier run is there, under the same name and with
\* the content it had after the earlier run.
C7_SplitIdempotent ==
    \A i \in DOMAIN splits : \A j \in DOMAIN splits :
        (i < j /\ splits[i].input = splits[j].input) =>
            \A k \in 1..splits[i].pages :
                /\ PageFileName(k) \in DOMAIN splits[i].after
                /\ PageFileName(k) \in DOMAIN splits[j].after
                /\ splits[j].after[PageFileName(k)]
                       = splits[i].after[PageFileName(k)]

\* the same source of at least one page has been split twice
C7_Witness ==
    /\ Len(splits) = 2
    /\ splits[1].input = splits[2].input
    /\ splits[1].pages >= 1
    /\ splits[2].written >= 1

\* C8: split_pdf on a readable source of zero pages returns (it raises only
\* when the source is absent or unreadable), has written no file and left
\* the files of the directory as they were, and the directory exists.
C8_ZeroPages ==
    /\ \A i \in DOMAIN splits :
           splits[i].pages = 0 =>
               /\ splits[i].written = 0
               /\ splits[i].after = splits[i].before
               /\ splits[i].dir_exists
    /\ (pc = "idle" /\ last_op = "split_pdf" /\ outcome # "returned") =>
           source[input_path].kind # "pdf"

\* a zero-page source has been split into a directory holding nothing
C8_Witness ==
    \E i \in DOMAIN splits :
        /\ splits[i].pages = 0
        /\ DOMAIN splits[i].before = {}
        /\ splits[i].dir_exists

\* C9 as claimed: splitting a source of N > 999 pages writes two page
\* indices to one file name, so that fewer than N page files exist after it.
C9_NamesCollide ==
    \A i \in DOMAIN splits :
        splits[i].pages > 999 =>
            Cardinality(PdfFilesOf(splits[i].after)) < splits[i].pages

\* C9 as the code has it: splitting a source of N > 999 pages writes every
\* page to a file name of its own, page 1000 to page_1000.pdf with all its
\* digits, so that a directory that held no file holds exactly N page files.
C9_NamesDistinct ==
    \A i \in DOMAIN splits :
        splits[i].pages > 999 =>
            /\ splits[i].written = splits[i].pages
            /\ PagePrefix \o <<"1", "0", "0", "0">> \o PdfExt
                   \in DOMAIN splits[i].after
            /\ splits[i].after[PagePrefix \o <<"1", "0", "0", "0">> \o PdfExt]
                   = SourcePage(splits[i].input, 1000)
            /\ (DOMAIN splits[i].before = {} =>
                    Cardinality(PdfFilesOf(splits[i].after)) = splits[i].pages)

\* a source of more than 999 pages has been split
C9_Witness ==
    \E i \in DOMAIN splits :
        /\ splits[i].pages > 999
        /\ DOMAIN splits[i].before = {}

\* C10: the files split_pdf wrote from an N-page source are processed by
\* extract_text_from_pages in source page order: for a page directory that
\* held no file before the split, the p-th file processed is page p.
C10_PageOrder ==
    (frame = "main" /\ pc = "extract_loop" /\ file_i = 0
       /\ DOMAIN splits[Len(splits)].before = {}) =>
        \A p \in DOMAIN pdf_files : output_dir[pdf_files[p]].index = p - 1

\* extract_text_from_pages has ended with the given exception, nothing ran since
ExtractRaised(exc) ==
    pc = "idle" /\ last_op = "extract_text_from_pages" /\ outcome = exc

\* the text file names of the first n files of the sorted listing
TextNamesUpTo(n) == {TextFilename(pdf_files[j]) : j \in 1..n}

\* every file of the text directory is one of the given names or is as it
\* was before the extraction was called, and none was removed
OnlyWritten(names) ==
    /\ DOMAIN text_before \subseteq DOMAIN text_dir
    /\ \A f \in DOMAIN text_dir :
           f \in names
           \/ (f \in DOMAIN text_before /\ text_dir[f] = text_before[f])

\* C12: when extract_text_from_pages ends with the read error of the k-th
\* file of the sorted listing, the k - 1 files before it have been processed
\* and their text files are written, no text file was written for the k-th
\* or a later file, no file after the k-th was processed, and no total is on
\* the console; and the extraction never returns normally, nor prints a
\* total, over a listing that holds an unreadable file (no skipping).
C12_FailurePropagates ==
    /\ ExtractRaised("PdfReadError") =>
           LET k == file_i + 1 IN
           /\ k <= Len(pdf_files)
           /\ ~output_dir[pdf_files[k]].ok
           /\ \A j \in 1..(k - 1) :
                  /\ output_dir[pdf_files[j]].ok
                  /\ TextFilename(pdf_files[j]) \in DOMAIN text_dir
                  /\ text_dir[TextFilename(pdf_files[j])]
                         = ExtractText(output_dir[pdf_files[j]])
           /\ OnlyWritten(TextNamesUpTo(k - 1))
           /\ Cardinality(LinesOf("Text")) = k - 1
           /\ LinesOf("Text extraction complete") = {}
           /\ LinesOf("Total characters") = {}
           /\ LinesOf("Total estimated tokens") = {}
           /\ LinesOf("Average tokens per page") = {}
    /\ (ExtractReturned \/ LinesOf("Total characters") # {}) =>
           \A j \in DOMAIN pdf_files : output_dir[pdf_files[j]].ok

\* the extraction failed at the second file, after writing the first's text
C12_Witness ==
    /\ ExtractRaised("PdfReadError")
    /\ file_i = 1
    /\ Len(pdf_files) >= 2
    /\ TextFilename(pdf_files[1]) \in DOMAIN text_dir
    /\ TextFilename(pdf_files[2]) \notin DOMAIN text_dir

\* C13: in the script's main flow the extraction is only started after
\* split_pdf has returned, having written all N page files of the source,
\* which are all in the page directory with the source's pages when the
\* extraction starts and stay as they are while it runs; and when split_pdf
\* fails the run ends there, without any extraction.
C13_SplitBeforeExtract ==
    /\ (frame = "main" /\ pc \in {"extract_start", "extract_loop"}) =>
           /\ source[InputPdf].kind = "pdf"
           /\ Len(splits) >= 1
           /\ splits[Len(splits)].input = InputPdf
           /\ splits[Len(splits)].written = source[InputPdf].n
           /\ page_num = source[InputPdf].n
           /\ output_dir = splits[Len(splits)].after
    /\ (frame = "main" /\ pc = "extract_start") =>
           \A k \in 1..source[InputPdf].n :
               /\ PageFileName(k) \in DOMAIN output_dir
               /\ output_dir[PageFileName(k)] = SourcePage(InputPdf, k)
    /\ (frame = "main" /\ source[InputPdf].kind # "pdf") =>
           /\ pc \in {"idle", "split_start"}
           /\ LinesOf("Extracting") = {}
    /\ (frame = "main" /\ pc = "idle" /\ last_op = "split_pdf") =>
           /\ outcome # "returned"
           /\ LinesOf("Extracting") = {}

\* the main flow is extracting after a split of a MaxPages-page source
C13_Witness ==
    /\ frame = "main"
    /\ pc = "extract_loop"
    /\ file_i >= 1
    /\ source[InputPdf].n = MaxPages
    /\ splits[Len(splits)].written = MaxPages

\* split_pdf has ended with an exception, and nothing ran since
SplitRaised == pc = "idle" /\ last_op = "split_pdf" /\ outcome # "returned"

\* C15: split_pdf on a source that does not exist or cannot be read ends
\* with the read error (FileNotFoundError, PdfReadError), never enters its
\* loop and leaves the files of the page directory as they were; but the
\* page directory exists afterwards, also when it did not exist before.
C15_ReadErrorAfterMakedirs ==
    /\ SplitRaised =>
           /\ source[input_path].kind \in {"absent", "corrupt"}
           /\ outcome = (IF source[input_path].kind = "absent"
                         THEN "FileNotFoundError" ELSE "PdfReadError")
           /\ written = 0
           /\ output_dir = dir_before
           /\ OutputDir \in exists
    /\ pc = "split_loop" => source[input_path].kind = "pdf"
    /\ (pc = "idle" /\ last_op = "split_pdf" /\ outcome = "returned") =>
           source[input_path].kind = "pdf"

\* split_pdf failed on an unreadable source and created the page directory
C15_Witness ==
    /\ SplitRaised
    /\ outcome = "PdfReadError"
    /\ ~existed
    /\ OutputDir \in exists
    /\ DOMAIN output_dir = {}

\* C19: extract_text_from_pages over an existing page directory without any
\* .pdf file never returns: it ends with ZeroDivisionError, after making the
\* text directory and printing the two totals (both 0), with no text file
\* written and no average printed; so the main flow of a zero-page source
\* whose page directory holds no .pdf file ends with that error.
C19_NoFilesDivision ==
    /\ (pc = "idle" /\ last_op = "extract_text_from_pages"
          /\ OutputDir \in exists /\ PdfFilesOf(output_dir) = {}) =>
           /\ outcome = "ZeroDivisionError"
           /\ pdf_files = <<>>
           /\ TextDir \in exists
           /\ text_dir = text_before
           /\ LinesOf("Text") = {}
           /\ LinesOf("Average tokens per page") = {}
           /\ stdout[Len(stdout)] = Line("Total estimated tokens", <<>>, 0, 0)
    /\ ExtractRaised("ZeroDivisionError") => PdfFilesOf(output_dir) = {}
    /\ (frame = "main" /\ pc = "idle" /\ source[InputPdf].kind = "pdf"
          /\ source[InputPdf].n = 0 /\ PdfFilesOf(output_dir) = {}) =>
           ExtractRaised("ZeroDivisionError")

\* the main flow of a zero-page source ended with the division error, the
\* text directory made by the run
C19_Witness ==
    /\ frame = "main"
    /\ ExtractRaised("ZeroDivisionError")
    /\ source[InputPdf].n = 0
    /\ calls = 1
    /\ TextDir \in exists
    /\ DOMAIN text_dir = {}

\* the names split_pdf writes for a source of n pages
PageNames(n) == {PageFileName(k) : k \in 1..n}

\* the files a split found in the directory and did not write itself
StaleOf(r) == {f \in DOMAIN r.before : f \notin PageNames(r.pages)}

\* C20: every split_pdf call that returns leaves each file the directory held
\* under a name other than page_{k}, k in 1..N, in place and unchanged; so a
\* directory that held a page file numbered above N holds more than N .pdf
\* files after it, and when the main flow's extraction then returns, every
\* such stale .pdf file is in the listing, has its text file and its line of
\* character and token counts, which the totals add up.
C20_StaleFilesKept ==
    /\ \A i \in DOMAIN splits :
           LET r == splits[i] IN
           /\ \A f \in StaleOf(r) :
                  f \in DOMAIN r.after /\ r.after[f] = r.before[f]
           /\ (\E f \in StaleOf(r) : EndsWith(f, PdfExt)
                                     /\ SubSeq(f, 1, 5) = PagePrefix) =>
                  Cardinality(PdfFilesOf(r.after)) > r.pages
    /\ (frame = "main" /\ ExtractReturned) =>
           LET r == splits[Len(splits)] IN
           \A f \in StaleOf(r) :
               EndsWith(f, PdfExt) =>
                   /\ \E j \in DOMAIN pdf_files : pdf_files[j] = f
                   /\ TextFilename(f) \in DOMAIN text_dir
                   /\ \E l \in LinesOf("Text") :
                          /\ stdout[l].name = TextFilename(f)
                          /\ stdout[l].n = r.before[f].chars
                          /\ stdout[l].m = TokenEstimate(r.before[f].chars)
                   /\ Len(pdf_files) > r.pages
                   /\ total_chars = SumN(1, Len(stdout))
                   /\ total_chars >= r.before[f].chars

\* the main flow split a source of at least one page into a directory that
\* held a page file numbered above it, and extracted the stale file too
C20_Witness ==
    /\ frame = "main"
    /\ ExtractReturned
    /\ splits[Len(splits)].pages >= 1
    /\ StalePage \in StaleOf(splits[Len(splits)])
    /\ Len(pdf_files) = splits[Len(splits)].pages + 1
    /\ TextFilename(StalePage) \in DOMAIN text_dir

----------------------------------------------------------------------------
(* Properties of the document builder *)

RECURSIVE TotalSentences(_)
\* the number of base sentences of a section table
TotalSentences(table) ==
    IF table = <<>> THEN 0
    ELSE Len(Head(table).sentences) + TotalSentences(Tail(table))

\* the positions of the blocks of a given text form
BlocksOf(form) == {i \in DOMAIN content : content[i].text.form = form}

\* C5: the document generate_pdf builds holds cycles x (base sentences of
\* all sections) x repetitions expanded paragraphs, none when either count
\* is zero; and create_detailed_paragraphs(content_list, R) returns
\* len(content_list) x R paragraphs.
C5_ParagraphCount ==
    /\ gen_pc = "done" =>
           /\ Cardinality(BlocksOf("detailed"))
                  = cycles * TotalSentences(sections) * repetitions
           /\ (cycles = 0 \/ repetitions = 0) => BlocksOf("detailed") = {}
    /\ \A i \in DOMAIN sections : \A R \in 0..repetitions :
           Len(create_detailed_paragraphs(sections[i].sentences, R))
               = Len(sections[i].sentences) * R

\* a document of two cycles, three base sentences and two repetitions
C5_Witness ==
    /\ gen_pc = "done"
    /\ cycles = 2
    /\ repetitions = 2
    /\ TotalSentences(sections) = 3
    /\ Cardinality(BlocksOf("detailed")) = 12

\* the block list without its spacers
NoSpacers(blocks) == SelectSeq(blocks, LAMBDA b : b.type # "Spacer")

\* the expanded paragraphs of a section: R copies of each sentence, in order
ExpectedParagraphs(sentences, R) ==
    [i \in 1..(Len(sentences) * R) |->
        [type |-> "Paragraph", style |-> "Normal", size |-> 0,
         text |-> [form |-> "detailed",
                   base |-> sentences[((i - 1) \div R) + 1],
                   lower |-> Lower(sentences[((i - 1) \div R) + 1]),
                   num |-> 0]]]

\* the group of section s (1-based) in cycle c (0-based)
ExpectedGroup(c, s) ==
    << [type |-> "Paragraph", style |-> "CustomHeading", size |-> 0,
        text |-> [form |-> "heading", base |-> sections[s].title,
                  lower |-> "", num |-> c + 1]] >>
    \o ExpectedParagraphs(sections[s].sentences, repetitions)
    \o << [type |-> "Table", style |-> "grid", size |-> 9,
           text |-> [form |-> "none", base |-> "", lower |-> "", num |-> 0]],
          [type |-> "Paragraph", style |-> "Normal", size |-> 0,
           text |-> [form |-> "narrative", base |-> "", lower |-> "",
                     num |-> c + 5]],
          [type |-> "PageBreak", style |-> "none", size |-> 0,
           text |-> [form |-> "none", base |-> "", lower |-> "", num |-> 0]] >>

RECURSIVE ExpectedGroups(_)
\* the first g groups, cycle-major, sections in insertion order
ExpectedGroups(g) ==
    IF g = 0 THEN <<>>
    ELSE ExpectedGroups(g - 1)
         \o ExpectedGroup((g - 1) \div Len(sections),
                          ((g - 1) % Len(sections)) + 1)

\* C6: the block list generate_pdf builds is, spacers apart, the title block
\* followed by exactly cycles x S groups, cycle-major and in section order,
\* each a heading (section title, cycle index + 1), the section's expanded
\* paragraphs, one 9-row table, one narrative block with cycle index + 5 and
\* one page break; so it holds cycles x S headings, tables and narratives.
C6_BlockSequence ==
    gen_pc = "done" =>
        /\ NoSpacers(content)
               = NoSpacers(TitlePage)
                 \o ExpectedGroups(cycles * Len(sections))
        /\ Cardinality(BlocksOf("heading")) = cycles * Len(sections)
        /\ Cardinality(BlocksOf("narrative")) = cycles * Len(sections)
        /\ Cardinality({i \in DOMAIN content : content[i].type = "Table"})
               = cycles * Len(sections)

\* a document of two cycles of two sections with repeated paragraphs
C6_Witness ==
    /\ gen_pc = "done"
    /\ cycles = 2
    /\ Len(sections) = 2
    /\ repetitions = 2
    /\ Cardinality(BlocksOf("heading")) = 4

\* C14: for every content list of the section table and every repetition
\* count N up to the one in use, create_detailed_paragraphs returns, for the
\* i-th base sentence, N equal paragraphs at the positions (i - 1) N + 1 ..
\* i N, built from that sentence: the copies do not differ by repetition
\* index, and all copies of sentence i come before those of sentence i + 1.
C14_EqualCopiesGrouped ==
    \A s \in DOMAIN sections : \A N \in 0..repetitions :
        LET list == sections[s].sentences
            out == create_detailed_paragraphs(list, N)
        IN  /\ Len(out) = Len(list) * N
            /\ \A i \in DOMAIN list : \A a \in 1..N :
                   /\ out[((i - 1) * N) + a] = out[((i - 1) * N) + 1]
                   /\ out[((i - 1) * N) + a].base = list[i]
                   /\ out[((i - 1) * N) + a].lower = Lower(list[i])

\* a section of two base sentences has been expanded with two repetitions
C14_Witness ==
    /\ gen_pc = "loop"
    /\ section_i >= 1
    /\ repetitions = 2
    /\ Len(sections[section_i].sentences) = 2
    /\ Cardinality(BlocksOf("detailed")) >= 4

----------------------------------------------------------------------------
(* Properties of the probe scripts *)

\* the requests a function issued for a target
RequestsBy(by, target) ==
    {i \in DOMAIN requests : requests[i].by = by /\ requests[i].target = target}

\* the function has issued exactly one request for the target, and the
\* entry of the result map is True exactly if its status was 200
EntryIsOwnStatus(by, target, results) ==
    /\ Cardinality(RequestsBy(by, target)) = 1
    /\ \A i \in RequestsBy(by, target) :
           results[target] = (requests[i].reply.kind = "status"
                              /\ requests[i].reply.code = 200)

\* the elements of a sequence
Elements(seq) == {seq[i] : i \in DOMAIN seq}

\* C11: in the HuggingFace prober, once test_avatar_endpoints has returned
\* its result map has exactly one entry per configured endpoint, and once
\* test_tts_models has returned its map has exactly one entry per model;
\* each endpoint was requested exactly once, whatever the earlier requests
\* came to, and its entry is True if and only if its own request returned
\* status 200; inside the loops the map holds the entries probed so far.
C11_OneEntryPerEndpoint ==
    script = "huggingface" =>
        /\ probe_pc \in {"tts", "tts_loop", "flow", "report", "done"} =>
               /\ DOMAIN avatar_results = Elements(avatar_endpoints)
               /\ \A e \in Elements(avatar_endpoints) :
                      EntryIsOwnStatus("test_avatar_endpoints", e,
                                       avatar_results)
        /\ probe_pc \in {"flow", "report", "done"} =>
               /\ DOMAIN tts_results = Elements(tts_models)
               /\ \A m \in Elements(tts_models) :
                      EntryIsOwnStatus("test_tts_models", m, tts_results)
        /\ probe_pc = "avatar_loop" =>
               DOMAIN avatar_results
                   = {avatar_endpoints[i] : i \in 1..endpoint_i}
        /\ probe_pc = "tts_loop" =>
               DOMAIN tts_results = {tts_models[i] : i \in 1..endpoint_i}

\* both tests returned after a timeout, a connection error and a loading
\* model, with a later endpoint and a later model available
C11_Witness ==
    /\ script = "huggingface"
    /\ probe_pc = "done"
    /\ \E i \in DOMAIN requests :
           requests[i].target = "hallo" /\ requests[i].reply = Timeout
    /\ \E i \in DOMAIN requests :
           requests[i].target = "sadtalker"
           /\ requests[i].reply = ConnectionError
    /\ ~avatar_results["hallo"]
    /\ ~avatar_results["sadtalker"]
    /\ avatar_results["tts_hallo"]
    /\ \E i \in DOMAIN requests :
           requests[i].target = tts_models[1] /\ requests[i].reply.code = 503
    /\ ~tts_results[tts_models[1]]
    /\ tts_results[tts_models[3]]

StepsOfRun(ok) ==
    <<"main", "test_hf_api_connection", "test_avatar_endpoints",
      "test_tts_models">>
    \o (IF ok THEN <<"test_avatar_generation_flow">> ELSE <<>>)
    \o <<"generate_report">>

\* s is an initial part of t
IsPrefix(s, t) == Len(s) <= Len(t) /\ s = SubSeq(t, 1, Len(s))

\* C17: the functions a run of the HuggingFace prober's main enters are, in
\* this order, the API connection test, the avatar endpoint tests, the TTS
\* model tests, the avatar generation flow if and only if the API
\* connection test returned True, and the summary report: a finished run
\* has entered exactly these, a running one an initial part of them.
C17_StepOrder ==
    script = "huggingface" =>
        /\ probe_pc \notin {"start", "api"} =>
               IsPrefix(steps, StepsOfRun(api_ok))
        /\ probe_pc = "done" =>
               /\ steps = StepsOfRun(api_ok)
               /\ api_ok <=> (\E i \in DOMAIN steps :
                                  steps[i] = "test_avatar_generation_flow")
               /\ report # "none"
        /\ probe_pc = "flow" => api_ok

\* a run without API connection and without any available endpoint or
\* model has skipped the generation flow and printed its report
C17_Witness ==
    /\ script = "huggingface"
    /\ probe_pc = "done"
    /\ ~api_ok
    /\ ~NoToken(hf_token)
    /\ \A e \in DOMAIN avatar_results : ~avatar_results[e]
    /\ \A m \in DOMAIN tts_results : ~tts_results[m]
    /\ steps = <<"main", "test_hf_api_connection", "test_avatar_endpoints",
                 "test_tts_models", "generate_report">>

\* C18: the report of a finished run says ready if and only if the API
\* connection test returned True, some avatar endpoint's entry is True and
\* some TTS model's entry is True; and a run without a token (unset or
\* empty in both variables) issued no request for the API connection test,
\* got False from it, and is not reported ready.
C18_ReadyIff ==
    (script = "huggingface" /\ probe_pc = "done") =>
        /\ report \in {"ready", "not ready"}
        /\ report = "ready" <=>
               /\ api_ok
               /\ \E e \in Elements(avatar_endpoints) : avatar_results[e]
               /\ \E m \in Elements(tts_models) : tts_results[m]
        /\ (environ.HF_TOKEN \in {"unset", ""}
              /\ environ.NEXT_PUBLIC_HF_TOKEN \in {"unset", ""}) =>
               /\ ~api_ok
               /\ report = "not ready"
               /\ \A i \in DOMAIN requests :
                      requests[i].by # "test_hf_api_connection"
        /\ api_ok =>
               \E i \in DOMAIN requests :
                   /\ requests[i].by = "test_hf_api_connection"
                   /\ requests[i].reply = Status(200, "json")

\* a run without a token found an avatar endpoint and a TTS model available
\* and reported not ready
C18_Witness ==
    /\ script = "huggingface"
    /\ probe_pc = "done"
    /\ environ.HF_TOKEN = ""
    /\ environ.NEXT_PUBLIC_HF_TOKEN = "unset"
    /\ \E e \in DOMAIN avatar_results : avatar_results[e]
    /\ \E m \in DOMAIN tts_results : tts_results[m]
    /\ report = "not ready"

====
